---- MODULE Spec2Model ----
(***************************************************************************)
(* A model of src/generate_wind_table.py: the command-line run of main     *)
(* (argument parsing, prompting, the wind-table computation, the table     *)
(* writer, the plot and the two confirmation lines).                       *)
(*                                                                         *)
(* Python floats are modelled as decimal floating-point numbers <<m, e>>   *)
(* (value m * 10^e) whose mantissa keeps Precision significant digits and  *)
(* whose every operation rounds to nearest, ties to even, as IEEE-754      *)
(* arithmetic does with 53 bits.  The exponent is unbounded: overflow to   *)
(* infinity and underflow are outside the model, and so is the sign of     *)
(* zero.  A single value NonFinite stands for the inf/nan results of a     *)
(* division by zero.                                                       *)
(***************************************************************************)
EXTENDS Integers, Sequences, FiniteSets, TLC

(* ------------------------------ bounds -------------------------------- *)

\* significant decimal digits of a float (float64: 53 bits)
Precision == 3
\* significant digits kept by the "% .8e" conversion (9 in the program);
\* like the program's, fewer than a float carries
FmtDigits == 2
\* largest --n-steps explored
MaxSteps == 3

(* --------------------------- float arithmetic ------------------------- *)

RECURSIVE Pow10(_)
Pow10(k) == IF k <= 0 THEN 1 ELSE 10 * Pow10(k - 1)

Abs(n) == IF n < 0 THEN -n ELSE n

Sgn(n) == IF n < 0 THEN -1 ELSE 1

RECURSIVE NumDigits(_)
NumDigits(n) == IF n < 10 THEN 1 ELSE 1 + NumDigits(n \div 10)

\* n / d rounded to the nearest integer, ties to even (n >= 0, d > 0)
RoundHalfEven(n, d) ==
    LET q == n \div d
        r == n % d
    IN  IF 2 * r > d \/ (2 * r = d /\ q % 2 = 1) THEN q + 1 ELSE q

Zero == <<0, 0>>

NonFinite == <<0, 1>>

IsFinite(x) == x # NonFinite

\* the float nearest to m * 10^e
Normalize(m, e) ==
    IF m = 0 THEN Zero
    ELSE LET a == Abs(m)
             n == NumDigits(a)
         IN  IF n > Precision
             THEN LET q == RoundHalfEven(a, Pow10(n - Precision))
                  IN  IF q = Pow10(Precision)
                      THEN <<Sgn(m) * Pow10(Precision - 1), e + n - Precision + 1>>
                      ELSE <<Sgn(m) * q, e + n - Precision>>
             ELSE <<m * Pow10(Precision - n), e - (Precision - n)>>

FromInt(k) == Normalize(k, 0)

One == FromInt(1)

Neg(x) == IF x = NonFinite THEN NonFinite ELSE <<-x[1], x[2]>>

Mul(x, y) ==
    IF x = NonFinite \/ y = NonFinite THEN NonFinite
    ELSE IF x[1] = 0 \/ y[1] = 0 THEN Zero
    ELSE Normalize(x[1] * y[1], x[2] + y[2])

\* x / y; a zero divisor gives inf or nan
Div(x, y) ==
    IF x = NonFinite \/ y = NonFinite \/ y[1] = 0 THEN NonFinite
    ELSE IF x[1] = 0 THEN Zero
    ELSE LET a == Abs(x[1])
             b == Abs(y[1])
             k == IF a >= b THEN Precision - 1 ELSE Precision
         IN  Normalize(Sgn(x[1]) * Sgn(y[1]) * RoundHalfEven(a * Pow10(k), b),
                       x[2] - y[2] - k)

Add(x, y) ==
    IF x = NonFinite \/ y = NonFinite THEN NonFinite
    ELSE IF x[1] = 0 THEN y
    ELSE IF y[1] = 0 THEN x
    ELSE LET hi == IF x[2] >= y[2] THEN x ELSE y
             lo == IF x[2] >= y[2] THEN y ELSE x
             d == hi[2] - lo[2]
         IN  IF d > Precision + 1 THEN hi
             ELSE Normalize(hi[1] * Pow10(d) + lo[1], lo[2])

Sub(x, y) == Add(x, Neg(y))

\* comparisons; every comparison with inf/nan standing in as NonFinite is false
Less(x, y) == IsFinite(x) /\ IsFinite(y) /\ Sub(x, y)[1] < 0

LessEq(x, y) == IsFinite(x) /\ IsFinite(y) /\ Sub(x, y)[1] <= 0

RECURSIVE ExpSeries(_, _, _, _)
ExpSeries(x, sum, term, k) ==
    LET t == Div(Mul(term, x), FromInt(k))
        s == Add(sum, t)
    IN  IF s = sum THEN sum ELSE ExpSeries(x, s, t, k + 1)

\* np.exp, for x >= 0: the power series summed in float arithmetic until
\* a term no longer changes the sum (within a few units in the last place
\* of the exact value, which np.exp is within one of; exactly 1.0 when x
\* is below half the spacing of the floats at 1.0, as np.exp is)
Exp(x) == IF x = NonFinite THEN NonFinite ELSE ExpSeries(x, One, One, 1)

\* x ** 2
Square(x) == Mul(x, x)

\* x ** -2
PowNeg2(x) == Div(One, Mul(x, x))

(* ----------------------------- constants ------------------------------ *)

\* 365.25 * 24 * 3600
SECONDS_PER_YEAR == Normalize(31557600, 0)

\* 1.98847e33
MSUN_CGS == Normalize(198847, 28)

\* 1.0e5
KM_TO_CM == Normalize(1, 5)

\* math.sqrt(math.pi) = 1.77245385...
SqrtPi == Normalize(177245385, -8)

columns == 63

(* ------------------------- compute_wind_table ------------------------- *)

\* np.arange(0, num) as floats
arange(num) == [i \in 1..num |-> FromInt(i - 1)]

\* faulty variant: the endpoint assignment, y[-1] = stop, made for num > 0
linspace_endpoint_always(start, stop, num) ==
    LET div == num - 1
        delta == Sub(stop, start)
        y0 == arange(num)
        step == Div(delta, FromInt(div))
        y == IF div > 0
             THEN IF step = Zero
                  THEN [i \in 1..num |-> Mul(Div(y0[i], FromInt(div)), delta)]
                  ELSE [i \in 1..num |-> Mul(y0[i], step)]
             ELSE [i \in 1..num |-> Mul(y0[i], delta)]
        y1 == [i \in 1..num |-> Add(y[i], start)]
    IN  IF num > 0 THEN [y1 EXCEPT ![num] = stop] ELSE y1

\* faulty variant: endpoint=False, the grid stops one step short of stop
linspace_no_endpoint(start, stop, num) ==
    LET delta == Sub(stop, start)
        y0 == arange(num)
        step == Div(delta, FromInt(num))
    IN  [i \in 1..num |-> Add(Mul(y0[i], step), start)]

\* np.linspace(start, stop, num), endpoint=True, for num >= 0
\* (a negative num raises ValueError: see linspace_raises)
linspace(start, stop, num) ==
    LET div == num - 1
        delta == Sub(stop, start)
        y0 == arange(num)
        step == Div(delta, FromInt(div))
        y == IF div > 0
             THEN IF step = Zero
                  THEN [i \in 1..num |-> Mul(Div(y0[i], FromInt(div)), delta)]
                  ELSE [i \in 1..num |-> Mul(y0[i], step)]
             ELSE [i \in 1..num |-> Mul(y0[i], delta)]
        y1 == [i \in 1..num |-> Add(y[i], start)]
    IN  IF num > 1 THEN [y1 EXCEPT ![num] = stop] ELSE y1

\* faulty variant: an empty grid is rejected too
linspace_raises_empty(num) == num <= 0

linspace_raises(num) == num < 0

\* faulty variant: times / t_ej, unguarded
unguarded_divide(times, t_ej) ==
    [i \in 1..Len(times) |-> Div(times[i], t_ej)]

\* np.divide(times, t_ej, out=np.zeros_like(times), where=t_ej != 0)
guarded_divide(times, t_ej) ==
    [i \in 1..Len(times) |-> IF t_ej # Zero THEN Div(times[i], t_ej) ELSE Zero]

\* faulty variant: the formula evaluated at every sample, ratio == 0 included
mass_loss_rate_everywhere(m_ej, t_ej, r) ==
    Div(Mul(Mul(m_ej, Sub(One, Exp(Square(r)))), PowNeg2(r)),
        Mul(SqrtPi, t_ej))

\* one element of mw: zero unless valid (ratio != 0), else the formula
mass_loss_rate(m_ej, t_ej, r) ==
    IF r # Zero
    THEN Div(Mul(Mul(m_ej, Sub(One, Exp(Square(r)))), PowNeg2(r)),
             Mul(SqrtPi, t_ej))
    ELSE Zero

\* lw = mw * v_ej**2
luminosity(mw, v_ej) == [i \in 1..Len(mw) |-> Mul(mw[i], Square(v_ej))]

\* np.full_like(times, v_ej)
full_like(times, v_ej) == [i \in 1..Len(times) |-> v_ej]

years_to_seconds(years) == Mul(years, SECONDS_PER_YEAR)

msun_to_grams(msun) == Mul(msun, MSUN_CGS)

\* faulty variant: the velocity left in km/s
km_s_unconverted(km_s) == km_s

km_s_to_cm_s(km_s) == Mul(km_s, KM_TO_CM)

compute_wind_table(t_f_years, t_ej_years, m_ej_msun, v_ej_km_s, n_steps) ==
    LET t_f == years_to_seconds(t_f_years)
        t_ej == years_to_seconds(t_ej_years)
        m_ej == msun_to_grams(m_ej_msun)
        v_ej == km_s_to_cm_s(v_ej_km_s)
        times == linspace(Zero, t_f, n_steps)
        ratio == guarded_divide(times, t_ej)
        mw == [i \in 1..Len(times) |-> mass_loss_rate(m_ej, t_ej, ratio[i])]
    IN  [times |-> times, ratio |-> ratio, mw |-> mw,
         lw |-> luminosity(mw, v_ej), v_ej |-> full_like(times, v_ej)]

(* -------------------------- write_wind_table -------------------------- *)

\* "% .8e" % x: sign (blank or minus), FmtDigits-digit mantissa, exponent
\* of the leading digit
Fmt(x) ==
    IF x = NonFinite THEN <<"nan", 0, 0>>
    ELSE IF x[1] = 0 THEN <<" ", 0, 0>>
    ELSE LET a == Abs(x[1])
             q == IF Precision > FmtDigits
                  THEN RoundHalfEven(a, Pow10(Precision - FmtDigits))
                  ELSE a * Pow10(FmtDigits - Precision)
             s == IF x[1] < 0 THEN "-" ELSE " "
         IN  IF q = Pow10(FmtDigits)
             THEN <<s, Pow10(FmtDigits - 1), x[2] + Precision>>
             ELSE <<s, q, x[2] + Precision - 1>>

Line(fields) == [kind |-> "line", fields |-> fields]

Newline == [kind |-> "newline", fields |-> <<>>]

\* sep.join(rows)
RECURSIVE join(_, _)
join(sep, rows) ==
    IF rows = <<>> THEN <<>>
    ELSE IF Len(rows) = 1 THEN <<rows[1]>>
    ELSE <<rows[1], sep>> \o join(sep, Tail(rows))

\* faulty variant: the velocity stored one column early, data[:, 2] = v_ej
data_row_shifted(times, lw, v_ej, i) ==
    [c \in 1..columns |->
        IF c = 1 THEN times[i]
        ELSE IF c = 2 THEN lw[i]
        ELSE IF c = 3 THEN v_ej[i]
        ELSE Zero]

\* row i of data: zeros, then columns 0, 1 and 3 assigned
data_row(times, lw, v_ej, i) ==
    [c \in 1..columns |->
        IF c = 1 THEN times[i]
        ELSE IF c = 2 THEN lw[i]
        ELSE IF c = 4 THEN v_ej[i]
        ELSE Zero]

\* fmt % tuple(row), the fields of one line
format_row(row) == [c \in 1..Len(row) |-> Fmt(row[c])]

\* the text written to output_path
write_wind_table(times, lw, v_ej) ==
    join(Newline,
         [i \in 1..Len(times) |-> Line(format_row(data_row(times, lw, v_ej, i)))])

(* ------------------------------- inputs ------------------------------- *)

None == <<>>

TfValues == {Zero, Normalize(1, -1), Normalize(15, -2), FromInt(2), FromInt(-1)}

TejValues == {Zero, FromInt(1), FromInt(-1)}

MejValues == {Zero, Normalize(1, -2)}

VejValues == {Zero, FromInt(2000)}

NStepsValues == -1..MaxSteps

OutputPath == "wind_generated"

PlotPath == "wind_generated.png"

(* -------------------------------- main -------------------------------- *)

VARIABLES
    pc,           \* the statement of main about to run, "done" or "aborted"
    args,         \* the namespace parse_args returned
    t_f, t_ej, m_ej, v_ej,   \* main's locals (None until assigned)
    prompts,      \* the prompts passed to input(), in order
    table,        \* what compute_wind_table returned (with its ratio and mw)
    table_file,   \* the file at args.output
    plot_file,    \* the file at args.plot
    stdout,       \* the lines printed
    raised        \* the statement whose exception ended the run, or ""

vars == <<pc, args, t_f, t_ej, m_ej, v_ej, prompts, table, table_file,
          plot_file, stdout, raised>>

NoTable == [times |-> <<>>, ratio |-> <<>>, mw |-> <<>>, lw |-> <<>>, v_ej |-> <<>>]

Absent == [exists |-> FALSE, body |-> <<>>]

File(body) == [exists |-> TRUE, body |-> body]

Init ==
    /\ pc = "parse_args"
    /\ args = [t_f |-> None, t_ej |-> None, m_ej |-> None, v_ej |-> None,
               n_steps |-> 0]
    /\ t_f = None /\ t_ej = None /\ m_ej = None /\ v_ej = None
    /\ prompts = <<>>
    /\ table = NoTable
    /\ table_file = Absent
    /\ plot_file = Absent
    /\ stdout = <<>>
    /\ raised = ""

\* args = parse_args(): each physical parameter given or left unset
ParseArgs ==
    /\ pc = "parse_args"
    /\ \E a \in TfValues \cup {None}, b \in TejValues \cup {None},
          c \in MejValues \cup {None}, d \in VejValues \cup {None},
          n \in NStepsValues :
          args' = [t_f |-> a, t_ej |-> b, m_ej |-> c, v_ej |-> d, n_steps |-> n]
    /\ pc' = "prompt_t_f"
    /\ UNCHANGED <<t_f, t_ej, m_ej, v_ej, prompts, table, table_file,
                   plot_file, stdout, raised>>

\* faulty variant: `if value:` in place of `if value is not None:`
prompt_if_falsy(value) == value = None \/ value = Zero

\* prompt_if_missing: TRUE when input() is called
prompt_if_missing(value) == value = None

\* x = prompt_if_missing(args.x, prompt), the user typing a number of
\* `typed` or something float() rejects
PromptStep(here, value, prompt, typed, next, result) ==
    /\ pc = here
    /\ IF prompt_if_missing(value)
       THEN /\ prompts' = Append(prompts, prompt)
            /\ \/ /\ \E x \in typed : result = x
                  /\ pc' = next
                  /\ raised' = raised
               \/ /\ result = None
                  /\ pc' = "aborted"
                  /\ raised' = here
       ELSE /\ result = value
            /\ prompts' = prompts
            /\ pc' = next
            /\ raised' = raised
    /\ UNCHANGED <<args, table, table_file, plot_file, stdout>>

PromptTf ==
    /\ PromptStep("prompt_t_f", args.t_f, "t_f [y]: ", TfValues, "prompt_t_ej", t_f')
    /\ UNCHANGED <<t_ej, m_ej, v_ej>>

PromptTej ==
    /\ PromptStep("prompt_t_ej", args.t_ej, "t_ej [y]: ", TejValues, "prompt_m_ej", t_ej')
    /\ UNCHANGED <<t_f, m_ej, v_ej>>

PromptMej ==
    /\ PromptStep("prompt_m_ej", args.m_ej, "M_ej [Msun]: ", MejValues, "prompt_v_ej", m_ej')
    /\ UNCHANGED <<t_f, t_ej, v_ej>>

PromptVej ==
    /\ PromptStep("prompt_v_ej", args.v_ej, "v_ej [km/s]: ", VejValues, "compute", v_ej')
    /\ UNCHANGED <<t_f, t_ej, m_ej>>

\* times, lw, v_ej_values = compute_wind_table(...)
Compute ==
    /\ pc = "compute"
    /\ IF linspace_raises(args.n_steps)
       THEN /\ pc' = "aborted"
            /\ raised' = "compute"
            /\ table' = table
       ELSE /\ table' = compute_wind_table(t_f, t_ej, m_ej, v_ej, args.n_steps)
            /\ pc' = "write"
            /\ raised' = raised
    /\ UNCHANGED <<args, t_f, t_ej, m_ej, v_ej, prompts, table_file,
                   plot_file, stdout>>

\* write_wind_table(args.output, times, lw, v_ej_values); the write may fail
WriteTable ==
    /\ pc = "write"
    /\ \/ /\ table_file' = File(write_wind_table(table.times, table.lw, table.v_ej))
          /\ pc' = "plot"
          /\ raised' = raised
       \/ /\ table_file' = table_file
          /\ pc' = "aborted"
          /\ raised' = "write"
    /\ UNCHANGED <<args, t_f, t_ej, m_ej, v_ej, prompts, table, plot_file, stdout>>

\* faulty variant: a failed plot removes the table written before it
PlotWindRollback ==
    /\ pc = "plot"
    /\ \/ /\ plot_file' = File(<<table.times, table.lw>>)
          /\ table_file' = table_file
          /\ pc' = "print_table"
          /\ raised' = raised
       \/ /\ plot_file' = plot_file
          /\ table_file' = Absent
          /\ pc' = "aborted"
          /\ raised' = "plot"
    /\ UNCHANGED <<args, t_f, t_ej, m_ej, v_ej, prompts, table, stdout>>

\* plot_wind(args.plot, times, lw); saving the figure may fail
PlotWind ==
    /\ pc = "plot"
    /\ \/ /\ plot_file' = File(<<table.times, table.lw>>)
          /\ pc' = "print_table"
          /\ raised' = raised
       \/ /\ plot_file' = plot_file
          /\ pc' = "aborted"
          /\ raised' = "plot"
    /\ UNCHANGED <<args, t_f, t_ej, m_ej, v_ej, prompts, table, table_file, stdout>>

PrintTable ==
    /\ pc = "print_table"
    /\ stdout' = Append(stdout, <<"Wrote wind table to ", OutputPath>>)
    /\ pc' = "print_plot"
    /\ UNCHANGED <<args, t_f, t_ej, m_ej, v_ej, prompts, table, table_file,
                   plot_file, raised>>

PrintPlot ==
    /\ pc = "print_plot"
    /\ stdout' = Append(stdout, <<"Saved plot to ", PlotPath>>)
    /\ pc' = "done"
    /\ UNCHANGED <<args, t_f, t_ej, m_ej, v_ej, prompts, table, table_file,
                   plot_file, raised>>

Next ==
    \/ ParseArgs
    \/ PromptTf
    \/ PromptTej
    \/ PromptMej
    \/ PromptVej
    \/ Compute
    \/ WriteTable
    \/ PlotWind
    \/ PrintTable
    \/ PrintPlot

Spec == Init /\ [][Next]_vars

(* ------------------------------- claims ------------------------------- *)

\* compute_wind_table has returned: main holds times, lw and v_ej_values
Computed ==
    \/ pc \in {"write", "plot", "print_table", "print_plot", "done"}
    \/ pc = "aborted" /\ raised \in {"write", "plot"}

Samples == 1..Len(table.times)

\* the lines of the table file, newlines left out
FileLines == SelectSeq(table_file.body, LAMBDA item : item.kind = "line")

Positive(x) == Less(Zero, x)

Negative(x) == Less(x, Zero)

\* C1: for n_steps >= 2 and t_f >= 0 the time array has exactly n_steps
\* samples, starts at 0, ends at t_f in seconds and never decreases.
C1_TimeGrid ==
    (Computed /\ args.n_steps >= 2 /\ LessEq(Zero, t_f)) =>
        /\ Len(table.times) = args.n_steps
        /\ table.times[1] = Zero
        /\ table.times[args.n_steps] = Mul(t_f, SECONDS_PER_YEAR)
        /\ \A i \in 1..(args.n_steps - 1) :
               LessEq(table.times[i], table.times[i + 1])

C1_Witness ==
    /\ Computed /\ args.n_steps >= 3 /\ Positive(t_f)
    /\ Less(table.times[1], table.times[2])
    /\ Less(table.times[2], table.times[3])

\* C2: with t_ej = 0 the ratio is zero at every sample (no division by
\* zero is made, every value is finite) and every mass-loss and luminosity
\* value is zero, whatever t_f, m_ej, v_ej and n_steps are.
C2_ZeroTimescale ==
    (Computed /\ t_ej = Zero) =>
        /\ Len(table.ratio) = args.n_steps
        /\ Len(table.mw) = args.n_steps
        /\ Len(table.lw) = args.n_steps
        /\ \A i \in Samples :
               table.ratio[i] = Zero /\ table.mw[i] = Zero /\ table.lw[i] = Zero

C2_Witness ==
    /\ Computed /\ t_ej = Zero /\ args.n_steps >= 2
    /\ t_f # Zero /\ m_ej # Zero /\ v_ej # Zero
    /\ table.times[2] # Zero /\ table.lw[2] = Zero

\* C3: for t_ej > 0 and n_steps >= 1 the first sample has time 0, ratio 0
\* and, by the special case for ratio == 0, luminosity 0.
C3_FirstSample ==
    (Computed /\ Positive(t_ej) /\ args.n_steps >= 1) =>
        /\ table.times[1] = Zero
        /\ table.ratio[1] = Zero
        /\ table.mw[1] = Zero
        /\ table.lw[1] = Zero

C3_Witness ==
    /\ Computed /\ Positive(t_ej) /\ args.n_steps >= 2
    /\ table.lw[1] = Zero /\ table.lw[2] # Zero

\* C4: the three arrays have n_steps elements each, every velocity is the
\* converted input velocity, and so is column 3 of every line written.
C4_Velocity ==
    /\ Computed =>
        /\ Len(table.times) = args.n_steps
        /\ Len(table.lw) = args.n_steps
        /\ Len(table.v_ej) = args.n_steps
        /\ \A i \in Samples : table.v_ej[i] = Mul(v_ej, KM_TO_CM)
    /\ table_file.exists =>
        \A i \in 1..Len(FileLines) :
            FileLines[i].fields[4] = Fmt(Mul(v_ej, KM_TO_CM))

C4_Witness ==
    /\ table_file.exists /\ args.n_steps >= 2 /\ v_ej # Zero
    /\ FileLines[1].fields[4] = FileLines[2].fields[4]
    /\ FileLines[1].fields[4] # Fmt(Zero)

\* C5: the file holds one line per sample, lines separated by single
\* newlines with none after the last and no header; each line has 63
\* fields: the sample's time, its luminosity, zero, its velocity, and 59
\* zeros, each as the format conversion prints it.
C5_TableText ==
    table_file.exists =>
        LET text == table_file.body
            n == Len(table.times)
        IN  /\ Len(text) = IF n = 0 THEN 0 ELSE 2 * n - 1
            /\ \A i \in 1..n :
                   /\ text[2 * i - 1].kind = "line"
                   /\ Len(text[2 * i - 1].fields) = 63
                   /\ \A c \in 1..63 :
                          text[2 * i - 1].fields[c] =
                              IF c = 1 THEN Fmt(table.times[i])
                              ELSE IF c = 2 THEN Fmt(table.lw[i])
                              ELSE IF c = 4 THEN Fmt(table.v_ej[i])
                              ELSE <<" ", 0, 0>>
            /\ \A i \in 1..(n - 1) : text[2 * i].kind = "newline"

C5_Witness ==
    /\ table_file.exists /\ Len(table.times) >= 2
    /\ table_file.body[2].kind = "newline"
    /\ table_file.body[3].fields[1] # <<" ", 0, 0>>
    /\ table_file.body[3].fields[2] # <<" ", 0, 0>>
    /\ table_file.body[3].fields[4] # <<" ", 0, 0>>

\* the statements of main, in order
Statements ==
    <<"parse_args", "prompt_t_f", "prompt_t_ej", "prompt_m_ej", "prompt_v_ej",
      "compute", "write", "plot", "print_table", "print_plot", "done">>

Index(statement) == CHOOSE k \in 1..Len(Statements) : Statements[k] = statement

\* how many statements have been entered
Position == IF pc = "aborted" THEN Index(raised) + 1 ELSE Index(pc)

\* a timescale that is zero or negative, or a sample count of zero
Pathological ==
    /\ Position > Index("prompt_t_ej")
    /\ t_ej # None
    /\ args.n_steps >= 0
    /\ LessEq(t_ej, Zero) \/ args.n_steps = 0

AllLuminosityZero ==
    \A i \in 1..Len(FileLines) : FileLines[i].fields[2] = <<" ", 0, 0>>

\* C6, as claimed: pathological inputs are not rejected (the computation
\* raises nothing) and the table written is all-zero or has a single row.
C6_Original ==
    Pathological =>
        /\ raised # "compute"
        /\ table_file.exists => (AllLuminosityZero \/ Len(FileLines) = 1)

\* C6, amended: pathological inputs are not rejected; with a zero timescale
\* or a zero sample count every luminosity written is zero (no rows at all
\* for a zero sample count); a negative timescale is computed like any
\* other and its table need not be degenerate.
C6_Degenerate ==
    Pathological =>
        /\ raised # "compute"
        /\ (table_file.exists /\ (t_ej = Zero \/ args.n_steps = 0)) =>
               AllLuminosityZero
        /\ (table_file.exists /\ args.n_steps = 0) => table_file.body = <<>>
        /\ table_file.exists => Len(FileLines) = args.n_steps

C6_Witness ==
    /\ pc = "done" /\ Pathological /\ Negative(t_ej)
    /\ Len(FileLines) > 1 /\ ~AllLuminosityZero

\* C7: with n_steps = 1 the table has a single row: time 0, luminosity 0,
\* velocity the converted v_ej; so has the file.
C7_SingleRow ==
    /\ (Computed /\ args.n_steps = 1) =>
        /\ table.times = <<Zero>>
        /\ table.lw = <<Zero>>
        /\ table.v_ej = <<Mul(v_ej, KM_TO_CM)>>
    /\ (table_file.exists /\ args.n_steps = 1) =>
        /\ Len(table_file.body) = 1
        /\ table_file.body[1].fields[1] = <<" ", 0, 0>>
        /\ table_file.body[1].fields[2] = <<" ", 0, 0>>
        /\ table_file.body[1].fields[4] = Fmt(Mul(v_ej, KM_TO_CM))

C7_Witness ==
    /\ table_file.exists /\ args.n_steps = 1
    /\ t_f # Zero /\ t_ej # Zero /\ m_ej # Zero /\ v_ej # Zero

\* C8: the plot is never there without the table; a confirmation line is
\* printed only with both files written and nothing raised; a run that the
\* plot ended has the table, no plot and no confirmation line.
C8_WriteOrder ==
    /\ plot_file.exists => table_file.exists
    /\ stdout # <<>> => (table_file.exists /\ plot_file.exists /\ raised = "")
    /\ (pc = "aborted" /\ raised = "plot") =>
           (table_file.exists /\ ~plot_file.exists /\ stdout = <<>>)
    /\ (pc = "aborted" /\ raised = "write") =>
           (~table_file.exists /\ ~plot_file.exists /\ stdout = <<>>)
    /\ pc = "done" =>
           stdout = <<<<"Wrote wind table to ", OutputPath>>,
                      <<"Saved plot to ", PlotPath>>>>

C8_Witness ==
    pc = "aborted" /\ raised = "plot" /\ table_file.exists /\ ~plot_file.exists

Parameters == <<"t_f", "t_ej", "m_ej", "v_ej">>

PromptOf == <<"t_f [y]: ", "t_ej [y]: ", "M_ej [Msun]: ", "v_ej [km/s]: ">>

LocalOf == <<t_f, t_ej, m_ej, v_ej>>

Prompted(k) == \E j \in 1..Len(prompts) : prompts[j] = PromptOf[k]

\* the k-th prompt_if_missing call has been made
Called(k) == Position > k + 1

\* C9: a parameter is prompted for exactly when it was left unset; one
\* given on the command line (0 included) is used as given; nothing else
\* is ever prompted for, and nothing twice.
C9_Prompts ==
    /\ \A k \in 1..4 :
           /\ Prompted(k) => (Called(k) /\ args[Parameters[k]] = None)
           /\ Called(k) => (Prompted(k) <=> args[Parameters[k]] = None)
           /\ (Called(k) /\ args[Parameters[k]] # None) =>
                  LocalOf[k] = args[Parameters[k]]
    /\ \A j \in 1..Len(prompts) : \E k \in 1..4 : prompts[j] = PromptOf[k]
    /\ \A i, j \in 1..Len(prompts) : prompts[i] = prompts[j] => i = j

C9_Witness ==
    /\ pc = "compute"
    /\ args.t_f = None /\ args.t_ej = Zero /\ args.m_ej = None /\ args.v_ej = Zero
    /\ prompts = <<"t_f [y]: ", "M_ej [Msun]: ">>
    /\ t_ej = Zero /\ v_ej = Zero

\* C10: for m_ej > 0, t_ej > 0 and v_ej # 0 no luminosity is positive; it
\* is zero at time 0, negative at every time > 0, and its magnitude grows
\* with time.
C10_NegativeGrowing ==
    (Computed /\ Positive(m_ej) /\ Positive(t_ej) /\ v_ej # Zero) =>
        /\ \A i \in Samples :
               /\ ~Positive(table.lw[i])
               /\ table.times[i] = Zero => table.lw[i] = Zero
               /\ Positive(table.times[i]) => Negative(table.lw[i])
        /\ \A i, j \in Samples :
               (Positive(table.times[i]) /\ Less(table.times[i], table.times[j]))
                   => Less(table.lw[j], table.lw[i])

\* What is left of C10 in floating point: under the same conditions no
\* luminosity is positive, and it is zero at time 0.
NeverPositive ==
    (Computed /\ Positive(m_ej) /\ Positive(t_ej) /\ v_ej # Zero) =>
        \A i \in Samples :
            /\ ~Positive(table.lw[i])
            /\ table.times[i] = Zero => table.lw[i] = Zero

====
